---- MODULE Spec2Model ----
(***************************************************************************)
(* Model of the go-actor mailbox (src/actor/mailbox.go).                   *)
(*                                                                         *)
(* One mailbox, built by NewMailbox with either strategy, together with    *)
(* the goroutines that touch it: the actor's execution thread running the  *)
(* mailboxWorker (or the Idle worker of the channel strategy), producers   *)
(* blocked in `SendC() <- v`, consumers blocked in `<-ReceiveC()`, and     *)
(* callers of Start() and Stop().                                          *)
(*                                                                         *)
(* Unbuffered channels are modelled by rendezvous: a communication is one  *)
(* action that moves both the blocked goroutine and the worker's select.   *)
(* The Actor lifecycle (New, Idle, Start, Stop), the Context and the Queue *)
(* are code of the repository that is not part of mailbox.go; they are     *)
(* modelled from the specification's sections 3, 4.1, 4.3 and 4.4.         *)
(***************************************************************************)
EXTENDS Naturals, Sequences, FiniteSets

\* ------------------------------------------------------------- bounds

\* Number of producer goroutines sending on SendC().
NumProducers == 2

\* Number of sends the producers start, all together.
MaxSend == 2

\* Number of consumer goroutines reading ReceiveC().
NumConsumers == 2

\* Number of goroutines that may call Stop().
NumStoppers == 2

\* Largest mOpts.Capacity tried for the channel strategy.
MaxCapacity == 1

\* QueueSpec: the largest mOpts.MinCapacity tried.
MaxMinCapacity == 2

\* QueueSpec: the number of PushBack calls.
MaxPush == 4

\* FanOutSpec: the number of senders FanOut forwards to, the number of
\* values written to its input channel and the number of distinct values.
NumSenders == 2
MaxInput == 3
NumFanValues == 2

\* CombineSpec: the number of mailboxes handed to FromMailboxes.
NumMailboxes == 2

Consumers == 1..NumConsumers
Stoppers  == 1..NumStoppers

\* The values sent: the k-th send that any producer starts carries k, so
\* every sent value is distinct.
Values == 1..MaxSend

VARIABLES
    usingChan,    \* mOpts.UsingChan: the strategy NewMailbox chose
    capacity,     \* mOpts.Capacity: the buffer size of the channel strategy
    actorState,   \* "Created" | "Running" | "Stopped"
    cancelled,    \* the Context's Done() channel is closed
    cancelCount,  \* how many cancellation transitions happened
    wpc,          \* where the actor's execution thread is
    threads,      \* how many execution threads Start() has spawned
    closing,      \* channels the running teardown has still to close
    queue,        \* mailboxWorker.queue
    minCapacity,  \* mOpts.MinCapacity: the floor of the queue's storage
    qmin,         \* the queue's own minimum capacity, set by newQueue
    qbuf,         \* the queue's backing storage, 0 marks a free slot
    qhead,        \* offset of the front element in qbuf
    qcount,       \* number of elements stored in qbuf
    finq,         \* FanOut: values in the input channel, not yet read
    finClosed,    \* FanOut: the input channel is closed
    fread,        \* FanOut: the values the routine has read, in order
    fpc,          \* FanOut: where the forwarding routine is
    fidx,         \* FanOut: the sender the inner loop is at
    fgot,         \* FanOut: what each sender's mailbox has accepted
    combinePc,    \* Combine: where the caller of Start() and Stop() is
    mkind,        \* Combine: mailbox -> it was built with UsingChan
    mstarts,      \* Combine: mailbox -> number of Start() calls on it
    mstops,       \* Combine: mailbox -> number of Stop() calls on it
    mpc,          \* Combine: mailbox -> where its execution thread is
    mcloses,      \* Combine: mailbox -> channel -> close() calls completed
    mjoined,      \* Combine: the mailboxes whose Stop() has returned
    chanBuf,      \* buffer of the channel c of the channel strategy
    closes,       \* channel -> how many close() calls completed on it
    pending,      \* values whose `SendC() <- v` is blocked, one per producer
    panicked,     \* values whose send panicked (that producer is dead)
    cpc,          \* consumer -> "idle" | "receiving" | "closed"
    started,      \* number of sends the producers have started so far
    spc,          \* Stop caller -> "idle" | "waiting" | "returned"
    accepted,     \* history: values taken from the send endpoint, in order
    delivered     \* history: values handed out on the receive endpoint, in order

vars == <<usingChan, capacity, actorState, cancelled, cancelCount,
          wpc, threads, closing, queue, minCapacity, qmin, qbuf,
          qhead, qcount, chanBuf, closes, pending, panicked, started,
          cpc, spc, accepted, delivered, finq, finClosed, fread, fpc,
          fidx, fgot, combinePc, mkind, mstarts, mstops, mpc, mcloses,
          mjoined>>

\* ------------------------------------------------------------- queue

IsEmpty(q) == q = <<>>

Front(q) == Head(q)

PushBack(q, v) == Append(q, v)

PopFront(q) == Tail(q)

\* ------------------------------------------------------------- mailbox

\* The channel behind an endpoint: with UsingChan both endpoints are c.
SendC == IF usingChan THEN "c" ELSE "sendC"

ReceiveC == IF usingChan THEN "c" ELSE "receiveC"

Closed(ch) == closes[ch] > 0

\* The actor, its thread, the channels and their users before Start().
ActorCreated ==
    /\ actorState = "Created"
    /\ cancelled = FALSE
    /\ cancelCount = 0
    /\ wpc = "none"
    /\ threads = 0
    /\ closing = <<>>
    /\ chanBuf = <<>>
    /\ closes = [ch \in {"sendC", "receiveC", "c"} |-> 0]
    /\ pending = {}
    /\ panicked = {}
    /\ started = 0
    /\ cpc = [c \in Consumers |-> "idle"]
    /\ spc = [s \in Stoppers |-> "idle"]
    /\ accepted = <<>>
    /\ delivered = <<>>

\* The queue as a sequence, its storage left out.
QueueUnallocated ==
    /\ queue = <<>>
    /\ minCapacity = 1
    /\ qmin = 1
    /\ qbuf = <<>>
    /\ qhead = 0
    /\ qcount = 0

\* No FanOut routine was spawned.
FanOutAbsent ==
    /\ finq = <<>>
    /\ finClosed = FALSE
    /\ fread = <<>>
    /\ fpc = "none"
    /\ fidx = 0
    /\ fgot = <<>>

\* No mailboxes were combined.
CombineAbsent ==
    /\ combinePc = "none"
    /\ mkind = <<>>
    /\ mstarts = <<>>
    /\ mstops = <<>>
    /\ mpc = <<>>
    /\ mcloses = <<>>
    /\ mjoined = {}

\* NewMailbox: the state right after construction, for either strategy.
\* The mailbox specification keeps the queue as the sequence of its
\* elements; its backing storage (qbuf, qhead, qcount) is exercised by
\* QueueSpec below and stays unallocated here.
NewMailbox ==
    /\ usingChan \in BOOLEAN
    /\ capacity \in (IF usingChan THEN 0..MaxCapacity ELSE {0})
    /\ ActorCreated
    /\ QueueUnallocated
    /\ FanOutAbsent
    /\ CombineAbsent

Init == NewMailbox

\* ------------------------------------------------------------- actor

\* Start(): from Created, spawn the one execution thread. The thread of a
\* queue-backed mailbox loops over DoWork; the Idle actor's thread waits
\* for cancellation.
Start ==
    /\ actorState = "Created"
    /\ actorState' = "Running"
    /\ wpc' = IF usingChan THEN "idleWait" ELSE "loop"
    /\ threads' = threads + 1
    /\ UNCHANGED <<usingChan, capacity, cancelled, cancelCount, closing,
                   queue, minCapacity, qmin, qbuf, qhead, qcount, chanBuf,
                   closes, pending, panicked, started, cpc, spc, accepted,
                   delivered, finq, finClosed, fread, fpc, fidx, fgot,
                   combinePc, mkind, mstarts, mstops, mpc, mcloses, mjoined>>

\* Stop(), first half: the caller cancels the Context (one transition, by
\* the first caller only), the actor becomes Stopped, and the caller starts
\* waiting for the execution thread. Called before Start() there is no
\* thread to wait for, and Start() is no longer possible: starting a
\* stopped actor is a usage error the model leaves out.
\* Callers are numbered in the order of their calls.
StopCall(s) ==
    /\ spc[s] = "idle"
    /\ \A t \in 1..(s - 1) : spc[t] # "idle"
    /\ spc' = [spc EXCEPT ![s] = "waiting"]
    /\ actorState' = "Stopped"
    /\ cancelled' = TRUE
    /\ cancelCount' = IF cancelled THEN cancelCount ELSE cancelCount + 1
    /\ UNCHANGED <<usingChan, capacity, wpc, threads, closing, queue,
                   minCapacity, qmin, qbuf, qhead, qcount, chanBuf, closes,
                   pending, panicked, started, cpc, accepted, delivered,
                   finq, finClosed, fread, fpc, fidx, fgot, combinePc, mkind,
                   mstarts, mstops, mpc, mcloses, mjoined>>

\* Bug: Stop() returns as soon as the worker has returned End, without
\* waiting for the teardown.
ThreadGone_Early == wpc \in {"none", "onStop", "exited"}

\* What a Stop() caller waits for: no execution thread is left, because it
\* has exited or because none was ever spawned.
ThreadGone == wpc \in {"none", "exited"}

\* Stop(), second half: the caller is released once the thread is gone.
StopReturn(s) ==
    /\ spc[s] = "waiting"
    /\ ThreadGone
    /\ spc' = [spc EXCEPT ![s] = "returned"]
    /\ UNCHANGED <<usingChan, capacity, actorState, cancelled, cancelCount,
                   wpc, threads, closing, queue, minCapacity, qmin, qbuf,
                   qhead, qcount, chanBuf, closes, pending, panicked,
                   started, cpc, accepted, delivered, finq, finClosed, fread,
                   fpc, fidx, fgot, combinePc, mkind, mstarts, mstops, mpc,
                   mcloses, mjoined>>

\* The execution thread's loop: after a step that returned status, either
\* call the step again or leave the loop and run the teardown.
AfterStep(status) == IF status = "WorkerEnd" THEN "onStop" ELSE "loop"

\* Bug: the teardown hook closes c twice.
IdleOnStopCloses_Twice == <<"c", "c">>

\* The channel the teardown hook of the channel strategy closes:
\* OptOnStop(func() { close(c) }).
IdleOnStopCloses == <<"c">>

\* Idle's worker: wait for the Context's cancellation, then run the hook.
Idle ==
    /\ wpc = "idleWait"
    /\ cancelled
    /\ wpc' = "onStop"
    /\ closing' = IdleOnStopCloses
    /\ UNCHANGED <<usingChan, capacity, actorState, cancelled, cancelCount,
                   threads, queue, minCapacity, qmin, qbuf, qhead, qcount,
                   chanBuf, closes, pending, panicked, started, cpc, spc,
                   accepted, delivered, finq, finClosed, fread, fpc, fidx,
                   fgot, combinePc, mkind, mstarts, mstops, mpc, mcloses,
                   mjoined>>

\* ------------------------------------------------------------- worker

\* Bug: the select of the empty queue offers a value to receivers too.
EmptyCases_WithReceive == {"receive", "send", "done"}

\* Bug: the select of the empty queue lacks the cancellation case.
EmptyCases_NoDone == {"send"}

\* The cases of DoWork's select when the queue is empty.
EmptyCases == {"send", "done"}

\* Bug: with values queued the worker no longer reads the send endpoint.
NonEmptyCases_NoSend == {"receive", "done"}

\* Bug: the select of the non-empty queue lacks the cancellation case.
NonEmptyCases_NoDone == {"receive", "send"}

\* The cases of DoWork's select when the queue is not empty.
NonEmptyCases == {"receive", "send", "done"}

\* Bug: the queue is reachable from outside the worker's thread, so a
\* push or pop happens wherever the worker's thread is.
Selecting_Any(case) == TRUE

\* The worker is blocked in a select that has the given case.
Selecting(case) ==
    \/ wpc = "selectEmpty" /\ case \in EmptyCases
    \/ wpc = "selectNonEmpty" /\ case \in NonEmptyCases

\* Bug: DoWork offers the newest value instead of the oldest.
Offered_Last(q) == q[Len(q)]

\* The value DoWork offers on the receive endpoint.
Offered(q) == Front(q)

\* Bug: the receive case forgets PopFront.
AfterReceive_NoPop(q) == q

\* What the receive case does to the queue once the value was taken.
AfterReceive(q) == PopFront(q)

\* Bug: the send case puts the value at the front of the queue.
AfterSend_Front(q, v) == <<v>> \o q

\* What the send case does to the queue with the value it read.
AfterSend(q, v) == PushBack(q, v)

\* Bug: the send case returns WorkerEnd.
SendStatus_End == "WorkerEnd"

\* What DoWork returns from its send case.
SendStatus == "WorkerContinue"

\* Bug: the receive case returns WorkerEnd.
ReceiveStatus_End == "WorkerEnd"

\* What DoWork returns from its receive case.
ReceiveStatus == "WorkerContinue"

\* What DoWork returns from its cancellation case.
DoneStatus == "WorkerEnd"

\* Bug: OnStop closes neither endpoint.
OnStopCloses_None == <<>>

\* Bug: OnStop closes the send endpoint twice.
OnStopCloses_SendTwice == <<"sendC", "sendC">>

\* Bug: OnStop forgets to close the receive endpoint.
OnStopCloses_OnlySend == <<"sendC">>

\* Bug: OnStop forgets to close the send endpoint.
OnStopCloses_OnlyReceive == <<"receiveC">>

\* The channels OnStop closes, in order.
OnStopCloses == <<"sendC", "receiveC">>

\* DoWork is called: the IsEmpty test picks the select to block in.
DoWorkEnter ==
    /\ wpc = "loop"
    /\ wpc' = IF IsEmpty(queue) THEN "selectEmpty" ELSE "selectNonEmpty"
    /\ UNCHANGED <<usingChan, capacity, actorState, cancelled, cancelCount,
                   threads, closing, queue, minCapacity, qmin, qbuf, qhead,
                   qcount, chanBuf, closes, pending, panicked, started, cpc,
                   spc, accepted, delivered, finq, finClosed, fread, fpc,
                   fidx, fgot, combinePc, mkind, mstarts, mstops, mpc,
                   mcloses, mjoined>>

\* case value := <-w.sendC: rendezvous with the producer blocked in sending v.
DoWorkSend(v) ==
    /\ Selecting("send")
    /\ v \in pending
    /\ queue' = AfterSend(queue, v)
    /\ accepted' = Append(accepted, v)
    /\ pending' = pending \ {v}
    /\ wpc' = AfterStep(SendStatus)
    /\ UNCHANGED <<usingChan, capacity, actorState, cancelled, cancelCount,
                   threads, closing, minCapacity, qmin, qbuf, qhead, qcount,
                   chanBuf, closes, panicked, started, cpc, spc, delivered,
                   finq, finClosed, fread, fpc, fidx, fgot, combinePc, mkind,
                   mstarts, mstops, mpc, mcloses, mjoined>>

\* case w.receiveC <- w.queue.Front(): rendezvous with consumer c blocked
\* in its receive.
DoWorkReceive(c) ==
    /\ Selecting("receive")
    /\ cpc[c] = "receiving"
    /\ delivered' = Append(delivered, Offered(queue))
    /\ queue' = AfterReceive(queue)
    /\ cpc' = [cpc EXCEPT ![c] = "idle"]
    /\ wpc' = AfterStep(ReceiveStatus)
    /\ UNCHANGED <<usingChan, capacity, actorState, cancelled, cancelCount,
                   threads, closing, minCapacity, qmin, qbuf, qhead, qcount,
                   chanBuf, closes, pending, panicked, started, spc,
                   accepted, finq, finClosed, fread, fpc, fidx, fgot,
                   combinePc, mkind, mstarts, mstops, mpc, mcloses, mjoined>>

\* case <-c.Done(): DoWork returns WorkerEnd and the thread runs OnStop.
DoWorkDone ==
    /\ Selecting("done")
    /\ cancelled
    /\ wpc' = AfterStep(DoneStatus)
    /\ closing' = OnStopCloses
    /\ UNCHANGED <<usingChan, capacity, actorState, cancelled, cancelCount,
                   threads, queue, minCapacity, qmin, qbuf, qhead, qcount,
                   chanBuf, closes, pending, panicked, started, cpc, spc,
                   accepted, delivered, finq, finClosed, fread, fpc, fidx,
                   fgot, combinePc, mkind, mstarts, mstops, mpc, mcloses,
                   mjoined>>

\* One close() of the teardown. Closing a closed channel panics.
OnStop ==
    /\ wpc = "onStop"
    /\ closing # <<>>
    /\ closes' = [closes EXCEPT ![Head(closing)] = @ + 1]
    /\ closing' = Tail(closing)
    /\ wpc' = IF Closed(Head(closing)) THEN "panicked" ELSE "onStop"
    /\ UNCHANGED <<usingChan, capacity, actorState, cancelled, cancelCount,
                   threads, queue, minCapacity, qmin, qbuf, qhead, qcount,
                   chanBuf, pending, panicked, started, cpc, spc, accepted,
                   delivered, finq, finClosed, fread, fpc, fidx, fgot,
                   combinePc, mkind, mstarts, mstops, mpc, mcloses, mjoined>>

\* The teardown is over: the execution thread exits.
ThreadExit ==
    /\ wpc = "onStop"
    /\ closing = <<>>
    /\ wpc' = "exited"
    /\ UNCHANGED <<usingChan, capacity, actorState, cancelled, cancelCount,
                   threads, closing, queue, minCapacity, qmin, qbuf, qhead,
                   qcount, chanBuf, closes, pending, panicked, started, cpc,
                   spc, accepted, delivered, finq, finClosed, fread, fpc,
                   fidx, fgot, combinePc, mkind, mstarts, mstops, mpc,
                   mcloses, mjoined>>

\* ------------------------------------------------------------- channel

\* Bug: the channel is made one slot larger than mOpts.Capacity.
ChanCap_PlusOne == capacity + 1

\* The buffer size of c: make(chan T, mOpts.Capacity).
ChanCap == capacity

\* Channel strategy: a send into the buffered channel c completes while
\* the buffer has room.
ChanSend(v) ==
    /\ usingChan
    /\ v \in pending
    /\ ~Closed(SendC)
    /\ Len(chanBuf) < ChanCap
    /\ chanBuf' = Append(chanBuf, v)
    /\ accepted' = Append(accepted, v)
    /\ pending' = pending \ {v}
    /\ UNCHANGED <<usingChan, capacity, actorState, cancelled, cancelCount,
                   wpc, threads, closing, queue, minCapacity, qmin, qbuf,
                   qhead, qcount, closes, panicked, started, cpc, spc,
                   delivered, finq, finClosed, fread, fpc, fidx, fgot,
                   combinePc, mkind, mstarts, mstops, mpc, mcloses, mjoined>>

\* Channel strategy: a receive takes the oldest buffered value; a closed
\* channel still hands out what it holds.
ChanReceive(c) ==
    /\ usingChan
    /\ cpc[c] = "receiving"
    /\ chanBuf # <<>>
    /\ delivered' = Append(delivered, Head(chanBuf))
    /\ chanBuf' = Tail(chanBuf)
    /\ cpc' = [cpc EXCEPT ![c] = "idle"]
    /\ UNCHANGED <<usingChan, capacity, actorState, cancelled, cancelCount,
                   wpc, threads, closing, queue, minCapacity, qmin, qbuf,
                   qhead, qcount, closes, pending, panicked, started, spc,
                   accepted, finq, finClosed, fread, fpc, fidx, fgot,
                   combinePc, mkind, mstarts, mstops, mpc, mcloses, mjoined>>

\* Channel strategy: with nothing buffered, a blocked sender hands its
\* value directly to a blocked receiver (the only way with capacity 0).
ChanHandoff(v, c) ==
    /\ usingChan
    /\ v \in pending
    /\ cpc[c] = "receiving"
    /\ ~Closed(SendC)
    /\ chanBuf = <<>>
    /\ accepted' = Append(accepted, v)
    /\ delivered' = Append(delivered, v)
    /\ pending' = pending \ {v}
    /\ cpc' = [cpc EXCEPT ![c] = "idle"]
    /\ UNCHANGED <<usingChan, capacity, actorState, cancelled, cancelCount,
                   wpc, threads, closing, queue, minCapacity, qmin, qbuf,
                   qhead, qcount, chanBuf, closes, panicked, started, spc,
                   finq, finClosed, fread, fpc, fidx, fgot, combinePc, mkind,
                   mstarts, mstops, mpc, mcloses, mjoined>>

\* ------------------------------------------------------------- users

\* A producer that is not blocked and not dead starts `SendC() <- v` with
\* the next value and blocks in it.
ProducerSend ==
    /\ started < MaxSend
    /\ Cardinality(pending) + Cardinality(panicked) < NumProducers
    /\ started' = started + 1
    /\ pending' = pending \cup {started + 1}
    /\ UNCHANGED <<usingChan, capacity, actorState, cancelled, cancelCount,
                   wpc, threads, closing, queue, minCapacity, qmin, qbuf,
                   qhead, qcount, chanBuf, closes, panicked, cpc, spc,
                   accepted, delivered, finq, finClosed, fread, fpc, fidx,
                   fgot, combinePc, mkind, mstarts, mstops, mpc, mcloses,
                   mjoined>>

\* A send on a closed channel, blocked or new, panics.
ProducerPanic(v) ==
    /\ v \in pending
    /\ Closed(SendC)
    /\ pending' = pending \ {v}
    /\ panicked' = panicked \cup {v}
    /\ UNCHANGED <<usingChan, capacity, actorState, cancelled, cancelCount,
                   wpc, threads, closing, queue, minCapacity, qmin, qbuf,
                   qhead, qcount, chanBuf, closes, started, cpc, spc,
                   accepted, delivered, finq, finClosed, fread, fpc, fidx,
                   fgot, combinePc, mkind, mstarts, mstops, mpc, mcloses,
                   mjoined>>

\* A consumer starts `<-ReceiveC()` and blocks in it.
ConsumerReceive(c) ==
    /\ cpc[c] \in {"idle", "closed"}
    /\ cpc' = [cpc EXCEPT ![c] = "receiving"]
    /\ UNCHANGED <<usingChan, capacity, actorState, cancelled, cancelCount,
                   wpc, threads, closing, queue, minCapacity, qmin, qbuf,
                   qhead, qcount, chanBuf, closes, pending, panicked,
                   started, spc, accepted, delivered, finq, finClosed, fread,
                   fpc, fidx, fgot, combinePc, mkind, mstarts, mstops, mpc,
                   mcloses, mjoined>>

\* A receive on a closed channel with nothing buffered, blocked or new,
\* returns the closed-channel signal.
ConsumerClosed(c) ==
    /\ cpc[c] = "receiving"
    /\ Closed(ReceiveC)
    /\ usingChan => chanBuf = <<>>
    /\ cpc' = [cpc EXCEPT ![c] = "closed"]
    /\ UNCHANGED <<usingChan, capacity, actorState, cancelled, cancelCount,
                   wpc, threads, closing, queue, minCapacity, qmin, qbuf,
                   qhead, qcount, chanBuf, closes, pending, panicked,
                   started, spc, accepted, delivered, finq, finClosed, fread,
                   fpc, fidx, fgot, combinePc, mkind, mstarts, mstops, mpc,
                   mcloses, mjoined>>

\* ------------------------------------------------------------- system

Next ==
    \/ Start
    \/ \E s \in Stoppers : StopCall(s)
    \/ \E s \in Stoppers : StopReturn(s)
    \/ Idle
    \/ DoWorkEnter
    \/ \E v \in Values : DoWorkSend(v)
    \/ \E c \in Consumers : DoWorkReceive(c)
    \/ DoWorkDone
    \/ OnStop
    \/ ThreadExit
    \/ \E v \in Values : ChanSend(v)
    \/ \E c \in Consumers : ChanReceive(c)
    \/ \E v \in Values, c \in Consumers : ChanHandoff(v, c)
    \/ ProducerSend
    \/ \E v \in Values : ProducerPanic(v)
    \/ \E c \in Consumers : ConsumerReceive(c)
    \/ \E c \in Consumers : ConsumerClosed(c)

Spec == Init /\ [][Next]_vars

\* What the Go runtime guarantees: a goroutine that can run does run, and a
\* select picks among its ready cases at random, so a case that is ready
\* again and again is taken. Nothing is assumed of what the users choose to
\* do: calling Start or Stop, starting a send or a receive.
Fairness ==
    /\ WF_vars(DoWorkEnter \/ Idle \/ OnStop \/ ThreadExit)
    /\ SF_vars(\E v \in Values : DoWorkSend(v))
    /\ SF_vars(\E c \in Consumers : DoWorkReceive(c))
    /\ SF_vars(DoWorkDone)
    /\ WF_vars(\E s \in Stoppers : StopReturn(s))
    /\ WF_vars(\E v \in Values : ProducerPanic(v))
    /\ \A c \in Consumers : WF_vars(ConsumerClosed(c))

FairSpec == Spec /\ Fairness

\* ------------------------------------------------------------- storage

\* The queue's backing storage, following the specification of the Queue:
\* a ring of slots that at least doubles when a push finds it full and, on
\* a pop, may shrink by at most half, never below the minimum capacity.
\* The thresholds are a tuning choice, so PopFront may shrink whenever the
\* elements still fit.

Max(a, b) == IF a >= b THEN a ELSE b

\* The slot of the element at offset k from the front.
Slot(buf, head, k) == ((head + k) % Len(buf)) + 1

\* The elements stored, front first.
Contents == [k \in 1..qcount |-> qbuf[Slot(qbuf, qhead, k - 1)]]

\* Storage of n slots holding the same elements, front at offset 0.
Resized(n) == [k \in 1..n |-> IF k <= qcount THEN Contents[k] ELSE 0]

\* PushBack on full storage grows it to (at least) twice its size.
GrowTo(cap) == 2 * cap

\* The sizes PopFront may shrink storage of cap slots to, once count
\* elements are left: at most halved, not below the minimum, elements fit.
ShrinkTo(cap, count) ==
    {n \in 1..(cap - 1) : n >= (cap + 1) \div 2 /\ n >= qmin /\ n >= count}

\* Bug: newQueue is called with its two arguments swapped.
NewQueueArgs_Swapped == <<minCapacity, capacity>>

\* newQueue[T](mOpts.Capacity, mOpts.MinCapacity)
NewQueueArgs == <<capacity, minCapacity>>

\* newQueue(capacity, minimum): empty storage of the larger of the two.
newQueue ==
    /\ qmin = NewQueueArgs[2]
    /\ qbuf = [k \in 1..Max(NewQueueArgs[1], NewQueueArgs[2]) |-> 0]
    /\ qhead = 0
    /\ qcount = 0
    /\ queue = <<>>

\* QueueSpec starts from a queue-backed mailbox's queue for each pair of
\* options; the mailbox around it is left unstarted.
QueueInit ==
    /\ usingChan = FALSE
    /\ capacity \in 0..MaxCapacity
    /\ minCapacity \in 1..MaxMinCapacity
    /\ newQueue
    /\ ActorCreated
    /\ FanOutAbsent
    /\ CombineAbsent

\* queue.PushBack(v): grow if full, then store v behind the last element.
QueuePushBack ==
    /\ Len(accepted) < MaxPush
    /\ LET v == Len(accepted) + 1
           full == qcount = Len(qbuf)
           buf == IF full THEN Resized(GrowTo(Len(qbuf))) ELSE qbuf
           head == IF full THEN 0 ELSE qhead
       IN  /\ qbuf' = [buf EXCEPT ![Slot(buf, head, qcount)] = v]
           /\ qhead' = head
           /\ qcount' = qcount + 1
           /\ queue' = PushBack(queue, v)
           /\ accepted' = Append(accepted, v)
    /\ UNCHANGED <<usingChan, capacity, actorState, cancelled, cancelCount,
                   wpc, threads, closing, minCapacity, qmin, chanBuf, closes,
                   pending, panicked, started, cpc, spc, delivered, finq,
                   finClosed, fread, fpc, fidx, fgot, combinePc, mkind,
                   mstarts, mstops, mpc, mcloses, mjoined>>

\* queue.PopFront(): free the front slot, then shrink or keep the storage.
QueuePopFront ==
    /\ qcount > 0
    /\ delivered' = Append(delivered, qbuf[Slot(qbuf, qhead, 0)])
    /\ queue' = PopFront(queue)
    /\ qcount' = qcount - 1
    /\ \/ /\ qbuf' = [qbuf EXCEPT ![Slot(qbuf, qhead, 0)] = 0]
          /\ qhead' = (qhead + 1) % Len(qbuf)
       \/ \E n \in ShrinkTo(Len(qbuf), qcount - 1) :
             /\ qbuf' = [k \in 1..n |->
                            IF k < qcount THEN Contents[k + 1] ELSE 0]
             /\ qhead' = 0
    /\ UNCHANGED <<usingChan, capacity, actorState, cancelled, cancelCount,
                   wpc, threads, closing, minCapacity, qmin, chanBuf, closes,
                   pending, panicked, started, cpc, spc, accepted, finq,
                   finClosed, fread, fpc, fidx, fgot, combinePc, mkind,
                   mstarts, mstops, mpc, mcloses, mjoined>>

QueueNext == QueuePushBack \/ QueuePopFront

QueueSpec == QueueInit /\ [][QueueNext]_vars

\* ------------------------------------------------------------- fan-out

\* FanOut(receiveC, senders): one goroutine ranging over the input channel
\* and sending each value to every sender's SendC() in list order. The
\* senders are running queue-backed mailboxes, whose workers take a value
\* whenever one is offered; the input channel holds the values written to
\* it and not yet read, and stays readable after close until drained.

Senders == 1..NumSenders

FanValues == 1..NumFanValues

FanOutInit ==
    /\ usingChan = FALSE
    /\ capacity = 0
    /\ ActorCreated
    /\ QueueUnallocated
    /\ CombineAbsent
    /\ finq = <<>>
    /\ finClosed = FALSE
    /\ fread = <<>>
    /\ fpc = "range"
    /\ fidx = 0
    /\ fgot = [i \in Senders |-> <<>>]

\* The owner of the input channel writes a value to it.
InputSend(v) ==
    /\ ~finClosed
    /\ Len(fread) + Len(finq) < MaxInput
    /\ finq' = Append(finq, v)
    /\ UNCHANGED <<usingChan, capacity, actorState, cancelled, cancelCount,
                   wpc, threads, closing, queue, minCapacity, qmin, qbuf,
                   qhead, qcount, chanBuf, closes, pending, panicked,
                   started, cpc, spc, accepted, delivered, finClosed, fread,
                   fpc, fidx, fgot, combinePc, mkind, mstarts, mstops, mpc,
                   mcloses, mjoined>>

\* The owner of the input channel closes it.
InputClose ==
    /\ ~finClosed
    /\ finClosed' = TRUE
    /\ UNCHANGED <<usingChan, capacity, actorState, cancelled, cancelCount,
                   wpc, threads, closing, queue, minCapacity, qmin, qbuf,
                   qhead, qcount, chanBuf, closes, pending, panicked,
                   started, cpc, spc, accepted, delivered, finq, fread, fpc,
                   fidx, fgot, combinePc, mkind, mstarts, mstops, mpc,
                   mcloses, mjoined>>

\* Bug: the inner loop skips every other sender.
NextSender_Skip(i) == i + 2

\* for _, m := range senders: the sender after sender i.
NextSender(i) == i + 1

\* for v := range receiveC: the next value arrives, the inner loop starts.
FanOutRange ==
    /\ fpc = "range"
    /\ finq # <<>>
    /\ fread' = Append(fread, Head(finq))
    /\ finq' = Tail(finq)
    /\ fpc' = "send"
    /\ fidx' = 1
    /\ UNCHANGED <<usingChan, capacity, actorState, cancelled, cancelCount,
                   wpc, threads, closing, queue, minCapacity, qmin, qbuf,
                   qhead, qcount, chanBuf, closes, pending, panicked,
                   started, cpc, spc, accepted, delivered, finClosed, fgot,
                   combinePc, mkind, mstarts, mstops, mpc, mcloses, mjoined>>

\* m.SendC() <- v completes: the sender's mailbox has taken v, and the
\* inner loop moves on, back to the range once past the last sender.
FanOutSend ==
    /\ fpc = "send"
    /\ fgot' = [fgot EXCEPT ![fidx] = Append(@, fread[Len(fread)])]
    /\ IF NextSender(fidx) > NumSenders
          THEN fpc' = "range" /\ fidx' = 0
          ELSE fpc' = fpc /\ fidx' = NextSender(fidx)
    /\ UNCHANGED <<usingChan, capacity, actorState, cancelled, cancelCount,
                   wpc, threads, closing, queue, minCapacity, qmin, qbuf,
                   qhead, qcount, chanBuf, closes, pending, panicked,
                   started, cpc, spc, accepted, delivered, finq, finClosed,
                   fread, combinePc, mkind, mstarts, mstops, mpc, mcloses,
                   mjoined>>

\* The range ends: the input channel is closed and drained.
FanOutExit ==
    /\ fpc = "range"
    /\ finq = <<>>
    /\ finClosed
    /\ fpc' = "done"
    /\ UNCHANGED <<usingChan, capacity, actorState, cancelled, cancelCount,
                   wpc, threads, closing, queue, minCapacity, qmin, qbuf,
                   qhead, qcount, chanBuf, closes, pending, panicked,
                   started, cpc, spc, accepted, delivered, finq, finClosed,
                   fread, fidx, fgot, combinePc, mkind, mstarts, mstops, mpc,
                   mcloses, mjoined>>

FanOutNext ==
    \/ \E v \in FanValues : InputSend(v)
    \/ InputClose
    \/ FanOutRange
    \/ FanOutSend
    \/ FanOutExit

FanOutSpec == FanOutInit /\ [][FanOutNext]_vars

\* The forwarding goroutine is scheduled, and a send to a running
\* queue-backed mailbox completes.
FanOutFairness == WF_vars(FanOutRange \/ FanOutSend \/ FanOutExit)

FanOutFairSpec == FanOutSpec /\ FanOutFairness

\* ------------------------------------------------------------- combine

\* FromMailboxes(mm) = Combine(mm...): one caller starts the composite and
\* then stops it. Combine follows its specification: Start() starts every
\* child, in any order; Stop() stops every child, in any order and
\* concurrently, and returns once every child's Stop() has returned. Each
\* child is a mailbox of either strategy whose thread, once cancelled,
\* returns End, runs its teardown and exits.

Mailboxes == 1..NumMailboxes

\* Bug: the copy loop leaves the last mailbox out.
FromMailboxes_DropLast == [i \in 1..(NumMailboxes - 1) |-> i]

\* FromMailboxes: a[i] = m for every mailbox of mm, in order.
FromMailboxes == [i \in 1..NumMailboxes |-> i]

\* The children of the composite actor.
Children == {FromMailboxes[i] : i \in DOMAIN FromMailboxes}

\* The channels behind the endpoints of mailbox i.
Endpoints(i) == IF mkind[i] THEN {"c"} ELSE {"sendC", "receiveC"}

\* The close() calls of a teardown hook, added to the counts so far.
AfterCloses(counts, hook) ==
    [ch \in DOMAIN counts |->
        counts[ch] + Cardinality({k \in DOMAIN hook : hook[k] = ch})]

CombineInit ==
    /\ usingChan = FALSE
    /\ capacity = 0
    /\ ActorCreated
    /\ QueueUnallocated
    /\ FanOutAbsent
    /\ combinePc = "created"
    /\ mkind \in [Mailboxes -> BOOLEAN]
    /\ mstarts = [i \in Mailboxes |-> 0]
    /\ mstops = [i \in Mailboxes |-> 0]
    /\ mpc = [i \in Mailboxes |-> "none"]
    /\ mcloses = [i \in Mailboxes |->
                     [ch \in {"sendC", "receiveC", "c"} |-> 0]]
    /\ mjoined = {}

\* Combine(...).Start() is called.
CombineStart ==
    /\ combinePc = "created"
    /\ combinePc' = "starting"
    /\ UNCHANGED <<usingChan, capacity, actorState, cancelled, cancelCount,
                   wpc, threads, closing, queue, minCapacity, qmin, qbuf,
                   qhead, qcount, chanBuf, closes, pending, panicked,
                   started, cpc, spc, accepted, delivered, finq, finClosed,
                   fread, fpc, fidx, fgot, mkind, mstarts, mstops, mpc,
                   mcloses, mjoined>>

\* Start() of the composite starts child i: its thread is spawned.
ChildStart(i) ==
    /\ combinePc = "starting"
    /\ i \in Children
    /\ mstarts[i] = 0
    /\ mstarts' = [mstarts EXCEPT ![i] = @ + 1]
    /\ mpc' = [mpc EXCEPT ![i] = "running"]
    /\ UNCHANGED <<usingChan, capacity, actorState, cancelled, cancelCount,
                   wpc, threads, closing, queue, minCapacity, qmin, qbuf,
                   qhead, qcount, chanBuf, closes, pending, panicked,
                   started, cpc, spc, accepted, delivered, finq, finClosed,
                   fread, fpc, fidx, fgot, combinePc, mkind, mstops, mcloses,
                   mjoined>>

\* Start() of the composite returns: every child was started.
CombineStartReturn ==
    /\ combinePc = "starting"
    /\ \A i \in Children : mstarts[i] > 0
    /\ combinePc' = "running"
    /\ UNCHANGED <<usingChan, capacity, actorState, cancelled, cancelCount,
                   wpc, threads, closing, queue, minCapacity, qmin, qbuf,
                   qhead, qcount, chanBuf, closes, pending, panicked,
                   started, cpc, spc, accepted, delivered, finq, finClosed,
                   fread, fpc, fidx, fgot, mkind, mstarts, mstops, mpc,
                   mcloses, mjoined>>

\* Combine(...).Stop() is called.
CombineStop ==
    /\ combinePc = "running"
    /\ combinePc' = "stopping"
    /\ UNCHANGED <<usingChan, capacity, actorState, cancelled, cancelCount,
                   wpc, threads, closing, queue, minCapacity, qmin, qbuf,
                   qhead, qcount, chanBuf, closes, pending, panicked,
                   started, cpc, spc, accepted, delivered, finq, finClosed,
                   fread, fpc, fidx, fgot, mkind, mstarts, mstops, mpc,
                   mcloses, mjoined>>

\* Stop() of the composite calls Stop() of child i, cancelling its Context.
ChildStop(i) ==
    /\ combinePc = "stopping"
    /\ i \in Children
    /\ mstops[i] = 0
    /\ mstops' = [mstops EXCEPT ![i] = @ + 1]
    /\ UNCHANGED <<usingChan, capacity, actorState, cancelled, cancelCount,
                   wpc, threads, closing, queue, minCapacity, qmin, qbuf,
                   qhead, qcount, chanBuf, closes, pending, panicked,
                   started, cpc, spc, accepted, delivered, finq, finClosed,
                   fread, fpc, fidx, fgot, combinePc, mkind, mstarts, mpc,
                   mcloses, mjoined>>

\* The cancelled thread of child i returns End: DoWork's c.Done() case, or
\* the Idle worker.
ChildEnd(i) ==
    /\ mpc[i] = "running"
    /\ mstops[i] > 0
    /\ mpc' = [mpc EXCEPT ![i] = "onStop"]
    /\ UNCHANGED <<usingChan, capacity, actorState, cancelled, cancelCount,
                   wpc, threads, closing, queue, minCapacity, qmin, qbuf,
                   qhead, qcount, chanBuf, closes, pending, panicked,
                   started, cpc, spc, accepted, delivered, finq, finClosed,
                   fread, fpc, fidx, fgot, combinePc, mkind, mstarts, mstops,
                   mcloses, mjoined>>

\* The teardown of child i closes its channels, and its thread exits.
ChildOnStop(i) ==
    /\ mpc[i] = "onStop"
    /\ mcloses' = [mcloses EXCEPT ![i] =
           AfterCloses(@, IF mkind[i] THEN IdleOnStopCloses ELSE OnStopCloses)]
    /\ mpc' = [mpc EXCEPT ![i] = "exited"]
    /\ UNCHANGED <<usingChan, capacity, actorState, cancelled, cancelCount,
                   wpc, threads, closing, queue, minCapacity, qmin, qbuf,
                   qhead, qcount, chanBuf, closes, pending, panicked,
                   started, cpc, spc, accepted, delivered, finq, finClosed,
                   fread, fpc, fidx, fgot, combinePc, mkind, mstarts, mstops,
                   mjoined>>

\* Stop() of child i returns: its thread has exited.
ChildStopReturn(i) ==
    /\ mstops[i] > 0
    /\ mpc[i] = "exited"
    /\ i \notin mjoined
    /\ mjoined' = mjoined \cup {i}
    /\ UNCHANGED <<usingChan, capacity, actorState, cancelled, cancelCount,
                   wpc, threads, closing, queue, minCapacity, qmin, qbuf,
                   qhead, qcount, chanBuf, closes, pending, panicked,
                   started, cpc, spc, accepted, delivered, finq, finClosed,
                   fread, fpc, fidx, fgot, combinePc, mkind, mstarts, mstops,
                   mpc, mcloses>>

\* Stop() of the composite returns: every child's Stop() has returned.
CombineStopReturn ==
    /\ combinePc = "stopping"
    /\ \A i \in Children : i \in mjoined
    /\ combinePc' = "stopped"
    /\ UNCHANGED <<usingChan, capacity, actorState, cancelled, cancelCount,
                   wpc, threads, closing, queue, minCapacity, qmin, qbuf,
                   qhead, qcount, chanBuf, closes, pending, panicked,
                   started, cpc, spc, accepted, delivered, finq, finClosed,
                   fread, fpc, fidx, fgot, mkind, mstarts, mstops, mpc,
                   mcloses, mjoined>>

CombineNext ==
    \/ CombineStart
    \/ \E i \in Mailboxes : ChildStart(i)
    \/ CombineStartReturn
    \/ CombineStop
    \/ \E i \in Mailboxes : ChildStop(i)
    \/ \E i \in Mailboxes : ChildEnd(i)
    \/ \E i \in Mailboxes : ChildOnStop(i)
    \/ \E i \in Mailboxes : ChildStopReturn(i)
    \/ CombineStopReturn

CombineSpec == CombineInit /\ [][CombineNext]_vars

\* ------------------------------------------------------------- properties

Range(q) == {q[k] : k \in 1..Len(q)}

IsPrefix(a, b) == Len(a) <= Len(b) /\ \A k \in 1..Len(a) : a[k] = b[k]

NoDuplicates(q) == \A j, k \in 1..Len(q) : j # k => q[j] # q[k]

\* The execution thread was spawned and has not exited.
ThreadAlive == wpc \notin {"none", "exited"}

\* C1: for a queue-backed mailbox the values handed out on the receive
\* endpoint are, in every reachable state, a prefix of the values the worker
\* accepted from the send endpoint: strict FIFO, nothing reordered, skipped
\* or invented.
C1_FifoPrefix == ~usingChan => IsPrefix(delivered, accepted)

\* C1 witness: two senders raced (the second send started was accepted
\* first) and two values were handed out.
C1_Witness ==
    /\ ~usingChan
    /\ Len(delivered) >= 2
    /\ accepted[1] = 2

\* C2: on a started, not cancelled queue-backed mailbox every blocked send is
\* eventually accepted by the worker (or the mailbox is stopped first),
\* whatever the queue length and whether or not any consumer reads.
C2_SendCompletes ==
    \A v \in Values :
        (~usingChan /\ ThreadAlive /\ ~cancelled /\ v \in pending)
            ~> (v \in Range(accepted) \/ cancelled)

\* C2 witness: MaxSend sends completed with no consumer ever reading.
C2_Witness ==
    /\ ~usingChan
    /\ ~cancelled
    /\ Len(queue) = MaxSend
    /\ delivered = <<>>
    /\ \A c \in Consumers : cpc[c] = "idle"

C4_ClosedOnce ==
    /\ \A ch \in DOMAIN closes : closes[ch] <= 1
    /\ wpc # "panicked"
    /\ \A s \in Stoppers :
           (spc[s] = "returned" /\ wpc # "none")
               => closes[SendC] = 1 /\ closes[ReceiveC] = 1

\* C4 witness: Stop() has returned on a started queue-backed mailbox.
C4_Witness ==
    /\ ~usingChan
    /\ wpc = "exited"
    /\ \E s \in Stoppers : spc[s] = "returned"

\* C5: once the queue-backed mailbox worker has ended, every consumer blocked
\* in a receive gets the closed-channel signal and every producer blocked in
\* a send is released (by the panic of a send on a closed channel): nobody
\* hangs, whether blocked before or after the worker ended.
C5_ObserveClosure ==
    /\ \A c \in Consumers :
           (~usingChan /\ wpc \in {"onStop", "exited"} /\ cpc[c] = "receiving")
               ~> (cpc[c] = "closed")
    /\ \A v \in Values :
           (~usingChan /\ wpc \in {"onStop", "exited"} /\ v \in pending)
               ~> (v \in panicked)

\* C5 witness: after the worker has exited, a consumer has got the
\* closed-channel signal while values were still queued.
C5_Witness ==
    /\ ~usingChan
    /\ wpc = "exited"
    /\ queue # <<>>
    /\ \E c \in Consumers : cpc[c] = "closed"

\* A value that is nowhere in the mailbox and was never handed out.
NeverTaken(v) ==
    /\ v \notin Range(accepted)
    /\ v \notin Range(queue)
    /\ v \notin Range(chanBuf)
    /\ v \notin Range(delivered)

\* C6: a send that is pending or attempted once the mailbox has stopped (its
\* execution thread has exited) ends in the panic of a send on a closed
\* channel, and its value is never enqueued and never delivered; nothing is
\* accepted past shutdown.
C6_SendAfterStop ==
    /\ [](\A v \in Values :
             ((v \in pending /\ wpc = "exited") \/ v \in panicked)
                 => NeverTaken(v))
    /\ [][wpc = "exited" => accepted' = accepted]_vars
    /\ \A v \in Values : (v \in pending /\ wpc = "exited") ~> (v \in panicked)

\* C6 witness: a send started after the mailbox had stopped has panicked.
C6_Witness ==
    /\ wpc = "exited"
    /\ started = MaxSend
    /\ MaxSend \in panicked
    /\ accepted # <<>>

\* C7: once the context of a started queue-backed mailbox is cancelled, the
\* worker returns End and the thread exits, and every waiting Stop() caller
\* returns, whatever the queue holds and whatever producers and consumers do.
C7_StopTerminates ==
    /\ (~usingChan /\ cancelled /\ wpc # "none") ~> (wpc = "exited")
    /\ \A s \in Stoppers :
           (~usingChan /\ spc[s] = "waiting") ~> (spc[s] = "returned")

\* C7 witness: Stop() returned although the queue was not empty, a producer
\* was sending and no consumer ever read.
C7_Witness ==
    /\ ~usingChan
    /\ \E s \in Stoppers : spc[s] = "returned"
    /\ queue # <<>>
    /\ delivered = <<>>
    /\ pending \cup panicked # {}
    /\ \A c \in Consumers : cpc[c] = "idle"

\* C8: with several consumers on the receive endpoint each handing-out
\* releases exactly one blocked consumer with exactly one value, no value is
\* handed out twice, and the values handed out are those a single consumer
\* would have received: the first accepted ones.
C8_ExactlyOneConsumer ==
    /\ [](NoDuplicates(delivered)
          /\ Len(delivered) <= Len(accepted)
          /\ Range(delivered) = Range(SubSeq(accepted, 1, Len(delivered))))
    /\ [][delivered' # delivered =>
             /\ Len(delivered') = Len(delivered) + 1
             /\ Cardinality({c \in Consumers :
                    cpc[c] = "receiving" /\ cpc'[c] # "receiving"}) = 1]_vars

\* C8 witness: two values were handed out, one consumer took a value and
\* another consumer is still blocked in its receive.
C8_Witness ==
    /\ ~usingChan
    /\ Len(delivered) >= 2
    /\ \E c, d \in Consumers : cpc[c] = "receiving" /\ cpc[d] = "idle"

\* C9: Stop() returns only after the execution thread has exited; from then
\* on the queue-backed mailbox takes no step: the thread stays exited, the
\* queue is not mutated, no value is accepted or delivered.
C9_StopJoins ==
    /\ [](\A s \in Stoppers : spc[s] = "returned" => ~ThreadAlive)
    /\ [][(~usingChan /\ \E s \in Stoppers : spc[s] = "returned") =>
             /\ wpc' = wpc
             /\ queue' = queue
             /\ accepted' = accepted
             /\ delivered' = delivered]_vars

\* C9 witness: Stop() has returned while the queue still held values and a
\* producer and a consumer were blocked on the endpoints.
C9_Witness ==
    /\ ~usingChan
    /\ wpc = "exited"
    /\ \E s \in Stoppers : spc[s] = "returned"
    /\ queue # <<>>
    /\ pending # {}
    /\ \E c \in Consumers : cpc[c] = "receiving"

\* C10: with Stop() called before Start() or by several callers at once,
\* exactly one cancellation transition occurs, the teardown closes each
\* endpoint at most once, nothing panics in the actor, and every caller
\* returns.
C10_StopIdempotent ==
    /\ [](/\ cancelCount <= 1
          /\ (\E s \in Stoppers : spc[s] # "idle") => cancelCount = 1
          /\ \A ch \in DOMAIN closes : closes[ch] <= 1
          /\ wpc # "panicked")
    /\ \A s \in Stoppers : (spc[s] = "waiting") ~> (spc[s] = "returned")

\* C10 witness: two callers of Stop() are waiting at the same time on a
\* started mailbox whose teardown is running.
C10_Witness ==
    /\ wpc = "onStop"
    /\ spc[1] = "waiting"
    /\ spc[2] = "waiting"

\* The worker is blocked in one of DoWork's selects.
InSelect == wpc \in {"selectEmpty", "selectNonEmpty"}

\* C11: the actor FromMailboxes returns starts and stops every mailbox it
\* was given: once its Start() has returned every mailbox is started, once
\* its Stop() has returned every mailbox was started once and stopped once,
\* its thread has exited and each of its endpoints was closed exactly once;
\* no mailbox is ever started, stopped or closed twice.
C11_CombineAll ==
    /\ \A i \in Mailboxes :
           /\ mstarts[i] <= 1
           /\ mstops[i] <= 1
           /\ \A ch \in DOMAIN mcloses[i] : mcloses[i][ch] <= 1
    /\ combinePc \in {"running", "stopping", "stopped"} =>
           \A i \in Mailboxes : mstarts[i] = 1
    /\ combinePc = "stopped" =>
           \A i \in Mailboxes :
               /\ mstarts[i] = 1
               /\ mstops[i] = 1
               /\ mpc[i] = "exited"
               /\ \A ch \in Endpoints(i) : mcloses[i][ch] = 1

\* C11 witness: Stop() of a composite over mailboxes of both strategies
\* has returned.
C11_Witness ==
    /\ combinePc = "stopped"
    /\ \E i, j \in Mailboxes : mkind[i] /\ ~mkind[j]
    /\ \A i \in Mailboxes : i \in mjoined

C13_IdleHookOnce ==
    usingChan =>
        /\ closes["c"] <= 1
        /\ wpc # "panicked"
        /\ closes["c"] = 1 => (cancelled /\ \E s \in Stoppers : spc[s] # "idle")
        /\ wpc = "exited" => closes["c"] = 1

\* C13 witness: the Idle actor has exited after closing c, with values
\* still buffered.
C13_Witness ==
    /\ usingChan
    /\ wpc = "exited"
    /\ closes["c"] = 1
    /\ chanBuf # <<>>

C15_QueueCapacity ==
    /\ Len(qbuf) >= minCapacity
    /\ Len(qbuf) >= qcount
    /\ Contents = queue
    /\ accepted = delivered \o Contents
    /\ Len(delivered) = Len(accepted) => (qcount = 0 /\ IsEmpty(queue))

\* C15 witness: storage that started with one slot has grown to four and
\* shrunk to three, and elements were popped since, so the front is no
\* longer at the first slot.
C15_Witness ==
    /\ capacity = 0
    /\ minCapacity = 1
    /\ Len(qbuf) = 3
    /\ qhead > 0
    /\ qcount > 0

\* C16: the worker calls Front and PopFront on a non-empty queue only: the
\* select that offers a value is entered with a non-empty queue and hands
\* out its front; with an empty queue the select has no receive case.
C16_NoFrontOnEmpty ==
    /\ [](/\ wpc = "selectNonEmpty" => ~IsEmpty(queue)
          /\ wpc = "selectEmpty" => IsEmpty(queue)
          /\ Selecting("receive") => ~IsEmpty(queue))
    /\ [][(~usingChan /\ delivered' # delivered) =>
             /\ ~IsEmpty(queue)
             /\ delivered' = Append(delivered, Head(queue))]_vars

\* C16 witness: the queue was emptied by deliveries and the worker waits in
\* the select of the empty queue while a consumer is blocked in a receive.
C16_Witness ==
    /\ wpc = "selectEmpty"
    /\ delivered # <<>>
    /\ \E c \in Consumers : cpc[c] = "receiving"

\* C17: the queue is touched by the one worker thread only: Start() spawns
\* a single thread, so at most one DoWork step is in progress, and the
\* queue changes only when that thread completes a select; the steps of
\* producers, consumers and Stop callers leave it alone.
C17_SingleOwner ==
    /\ [](threads <= 1 /\ (InSelect => threads = 1))
    /\ [][queue' # queue => (InSelect /\ wpc' = "loop")]_vars
    /\ [][(started' # started \/ panicked' # panicked \/ spc' # spc
           \/ (cpc' # cpc /\ delivered' = delivered))
              => (queue' = queue /\ wpc' = wpc)]_vars

\* C17 witness: the single worker thread is inside a DoWork step on a
\* non-empty queue while a producer, a consumer and a Stop caller are all
\* blocked on the mailbox.
C17_Witness ==
    /\ ~usingChan
    /\ threads = 1
    /\ wpc = "selectNonEmpty"
    /\ pending # {}
    /\ \E c \in Consumers : cpc[c] = "receiving"
    /\ \E s \in Stoppers : spc[s] = "waiting"

\* C18: the values accepted are the values delivered followed by the queue
\* contents, and a DoWork step changes the queue by one push, by one pop of
\* the value just delivered, or not at all when it returns End.
C18_Conservation ==
    /\ [](~usingChan => accepted = delivered \o queue)
    /\ [][(InSelect /\ wpc' # wpc) =>
             \/ /\ Len(accepted') = Len(accepted) + 1
                /\ queue' = Append(queue, accepted'[Len(accepted')])
                /\ delivered' = delivered
                /\ wpc' = "loop"
             \/ /\ queue # <<>>
                /\ queue' = Tail(queue)
                /\ delivered' = Append(delivered, Head(queue))
                /\ accepted' = accepted
                /\ wpc' = "loop"
             \/ /\ queue' = queue
                /\ accepted' = accepted
                /\ delivered' = delivered
                /\ wpc' = "onStop"]_vars

\* C18 witness: after pushes and a pop the queue still holds a value.
C18_Witness ==
    /\ ~usingChan
    /\ delivered # <<>>
    /\ queue # <<>>
    /\ wpc = "loop"

\* C19: once the queue-backed worker has returned End nothing is delivered
\* any more and the queue is left as it is; the receive endpoint ends up
\* closed, so a blocked receive can only return the closed-channel signal.
C19_DiscardedOnEnd ==
    /\ [](~usingChan /\ wpc = "exited" => closes["receiveC"] = 1)
    /\ [][(~usingChan /\ wpc \in {"onStop", "exited"}) =>
             /\ delivered' = delivered
             /\ queue' = queue
             /\ \A c \in Consumers :
                    cpc[c] = "receiving"
                        => cpc'[c] \in {"receiving", "closed"}]_vars

\* C19 witness: every send completed, the worker has exited with a value
\* still queued, and a consumer got the closed-channel signal.
C19_Witness ==
    /\ ~usingChan
    /\ wpc = "exited"
    /\ queue # <<>>
    /\ started = MaxSend
    /\ pending = {}
    /\ panicked = {}
    /\ \E c \in Consumers : cpc[c] = "closed"

\* C20: a queue-backed mailbox does not shut down on its own: its worker
\* has returned End, or an endpoint is closed, only if the context was
\* cancelled, and while the context is live every step returns Continue.
C20_EndOnlyOnCancel ==
    /\ [](~usingChan =>
             ((wpc \in {"onStop", "exited", "panicked"}
               \/ Closed("sendC") \/ Closed("receiveC")) => cancelled))
    /\ [][(~cancelled /\ InSelect /\ wpc' # wpc) => wpc' = "loop"]_vars

\* C20 witness: all values were sent and delivered and the worker, never
\* cancelled, is waiting again.
C20_Witness ==
    /\ ~usingChan
    /\ ~cancelled
    /\ Len(delivered) = MaxSend
    /\ wpc = "selectEmpty"

====
